---- MODULE Spec2Model ----
(***************************************************************************)
(* Model of the record store of src/main.py (class DataManager) as it is   *)
(* driven by the console layer (class PersonalAssistant), together with    *)
(* the JSON storage file and the CSV files it imports.                     *)
(*                                                                         *)
(* A record is a Python dict.  It is modelled as a function from Keys to   *)
(* values, the value Absent standing for "the dict has no such key".       *)
(* Dict equality in Python ignores insertion order, and so does equality   *)
(* of these functions.  Of the fields of a note only id and title are      *)
(* kept (content and timestamp are further string fields handled exactly   *)
(* like title).                                                            *)
(***************************************************************************)
EXTENDS Integers, Sequences, FiniteSets, TLC

\* Longest collection the model builds.
MaxLen == 3

\* Titles the user may type.
Titles == {"a", "b"}

-----------------------------------------------------------------------------
(* Python values.  Every value carries all four fields so that values of   *)
(* different Python types can be compared: 1 == '1' is False in Python.    *)

IntV(n) == [t |-> "int", n |-> n, s |-> "", l |-> <<>>]
StrV(s) == [t |-> "str", n |-> 0, s |-> s, l |-> <<>>]
NoneV == [t |-> "none", n |-> 0, s |-> "", l |-> <<>>]
ListV(l) == [t |-> "list", n |-> 0, s |-> "", l |-> l]
Absent == [t |-> "absent", n |-> 0, s |-> "", l |-> <<>>]

\* The key None that csv.DictReader uses as restkey.
NoneKey == "<None>"

Keys == {"id", "title", "null", "", NoneKey}

\* Note.to_dict(): the dict of a note built by the console layer.
to_dict(id, title) ==
    [k \in Keys |-> CASE k = "id" -> IntV(id)
                      [] k = "title" -> StrV(title)
                      [] OTHER -> Absent]

-----------------------------------------------------------------------------
(* json.dump / json.load.  The file text is a sequence of chunks: an       *)
(* opening bracket, one JSON object per record, a closing bracket.         *)

JKeys == {"id", "title", "null", ""}

JAbsent == [t |-> "absent", n |-> 0, s |-> "", l |-> <<>>]

\* The JSON value json.dump writes for a Python value.
JsonValue(v) ==
    CASE v.t = "int" -> [t |-> "number", n |-> v.n, s |-> "", l |-> <<>>]
      [] v.t = "str" -> [t |-> "string", n |-> 0, s |-> v.s, l |-> <<>>]
      [] v.t = "none" -> [t |-> "null", n |-> 0, s |-> "", l |-> <<>>]
      [] v.t = "list" -> [t |-> "array", n |-> 0, s |-> "", l |-> v.l]
      [] OTHER -> JAbsent

\* The Python value json.load builds for a JSON value.
PyValue(j) ==
    CASE j.t = "number" -> IntV(j.n)
      [] j.t = "string" -> StrV(j.s)
      [] j.t = "null" -> NoneV
      [] j.t = "array" -> ListV(j.l)
      [] OTHER -> Absent

\* The JSON object of a dict.  JSON keys are strings: the encoder writes
\* the key None as "null".  DictReader inserts the key None last, so when
\* both keys are present its member is the later one and wins on load.
JsonObject(r) ==
    [k \in JKeys |->
        IF k = "null"
        THEN IF r[NoneKey] # Absent THEN JsonValue(r[NoneKey])
             ELSE JsonValue(r["null"])
        ELSE JsonValue(r[k])]

\* The dict json.load builds for a JSON object: every key is a string.
PyObject(o) ==
    [k \in Keys |-> IF k = NoneKey THEN Absent ELSE PyValue(o[k])]

EmptyObject == [k \in JKeys |-> JAbsent]
OpenChunk == [c |-> "[", o |-> EmptyObject]
CloseChunk == [c |-> "]", o |-> EmptyObject]
ObjChunk(o) == [c |-> "{}", o |-> o]

\* json.dump(self.data, f, indent=2): the complete text of a collection.
JsonDump(d) ==
    <<OpenChunk>> \o [i \in 1..Len(d) |-> ObjChunk(JsonObject(d[i]))]
        \o <<CloseChunk>>

\* The texts json.load accepts.
JsonWellFormed(text) ==
    /\ Len(text) >= 2
    /\ text[1] = OpenChunk
    /\ text[Len(text)] = CloseChunk
    /\ \A i \in 2..(Len(text) - 1) : text[i].c = "{}"

\* json.load(f) of a well-formed text.
JsonLoad(text) == [i \in 1..(Len(text) - 2) |-> PyObject(text[i + 1].o)]

\* A storage file: absent, or a text.
NoFile == [exists |-> FALSE, text |-> <<>>]
FileOf(text) == [exists |-> TRUE, text |-> text]

\* DataManager.load_data succeeds: the file is missing or parses.
Loadable(f) == ~f.exists \/ JsonWellFormed(f.text)

\* DataManager.load_data on a file it can load.
load_data(f) == IF ~f.exists THEN <<>> ELSE JsonLoad(f.text)

-----------------------------------------------------------------------------
(* csv.DictReader.  A CSV file is its sequence of lines, each line the     *)
(* sequence of its cells; the first line is the header.                    *)

\* The dict DictReader builds for one row under the header fieldnames.
RowDict(fieldnames, row) ==
    [k \in Keys |->
        IF \E i \in 1..Len(fieldnames) : fieldnames[i] = k
        THEN LET i == CHOOSE j \in 1..Len(fieldnames) :
                          /\ fieldnames[j] = k
                          /\ \A m \in 1..Len(fieldnames) :
                                 fieldnames[m] = k => m <= j
             IN  IF i <= Len(row) THEN StrV(row[i]) ELSE NoneV
        ELSE IF k = NoneKey /\ Len(row) > Len(fieldnames)
             THEN ListV(SubSeq(row, Len(fieldnames) + 1, Len(row)))
             ELSE Absent]

NonBlank(row) == row # <<>>

\* The rows DictReader yields: the lines after the header, blank ones
\* skipped.
DataRows(lines) ==
    IF lines = <<>> THEN <<>> ELSE SelectSeq(Tail(lines), NonBlank)

\* list(csv.DictReader(f)).
DictReaderRows(lines) ==
    LET rows == DataRows(lines)
    IN  [i \in 1..Len(rows) |-> RowDict(Head(lines), rows[i])]

NoCsv == [exists |-> FALSE, lines |-> <<>>]
CsvOf(lines) == [exists |-> TRUE, lines |-> lines]

\* The CSV files the user may name in an import.
CsvFiles ==
    << NoCsv,
       CsvOf(<< <<"id", "title">>, <<"1", "a">> >>),
       CsvOf(<< <<"title">>, <<"b">> >>),
       CsvOf(<< <<"id", "title">>, <<"2", "b", "x">> >>),
       CsvOf(<< <<"id", "title">>, <<"1">>, <<>>, <<"2", "b">> >>),
       CsvOf(<< >>) >>

-----------------------------------------------------------------------------
VARIABLES
    data,   \* DataManager.data: the in-memory collection
    file,   \* the JSON storage file DataManager.filename
    pc,     \* "idle": a store exists; "crashed": the process was stopped
            \* inside save_data; "load_error": load_data raised
    op,     \* the last operation and its arguments
    ret,    \* what the last operation returned or raised
    csvfile,    \* the CSV file export_to_csv writes
    exported,   \* the collection the last export_to_csv was called on
    search,     \* the last search_items call: its keyword and its result
    calc        \* the last Calculator.calculate call: its expression and
                \* its outcome

vars == <<data, file, pc, op, ret, csvfile, exported, search, calc>>

\* What the store operations leave alone.
others == <<csvfile, exported, search, calc>>

Op(name, id, patch, csv) ==
    [name |-> name, id |-> id, patch |-> patch, csv |-> csv]

NoPatch == [k \in Keys |-> Absent]

\* No search and no calculation has run yet.
NoSearch == [keyword |-> "", items |-> <<>>]
NoValue == [t |-> "none", num |-> 0, den |-> 1]
NoCalc == [expression |-> "", kind |-> "none", msg |-> "", val |-> NoValue]

\* Nothing exported, searched or calculated.
OthersInit ==
    /\ csvfile = NoCsv
    /\ exported = <<>>
    /\ search = NoSearch
    /\ calc = NoCalc

Init ==
    /\ data = <<>>
    /\ file = NoFile
    /\ pc = "idle"
    /\ op = Op("init", 0, NoPatch, 0)
    /\ ret = "None"
    /\ OthersInit

-----------------------------------------------------------------------------
(* DataManager.save_data.  open(filename, 'w') truncates the file, then    *)
(* json.dump writes the text chunk by chunk, then the file is closed.  A   *)
(* process stopped in between leaves a proper prefix of the new text,      *)
(* possibly the empty one.                                                 *)

\* The texts the file may hold when the process stops inside save_data.
PartialTexts(d) ==
    {SubSeq(JsonDump(d), 1, n) : n \in 0..(Len(JsonDump(d)) - 1)}

\* save_data runs to completion, the handler then returns r.
save_data(d, r) ==
    /\ file' = FileOf(JsonDump(d))
    /\ pc' = "idle"
    /\ ret' = r

\* The process is stopped inside save_data.  data keeps the collection the
\* interrupted save was writing; no operation reads it before the next
\* construction of the store replaces it.
save_data_killed(d) ==
    /\ \E text \in PartialTexts(d) : file' = FileOf(text)
    /\ pc' = "crashed"
    /\ ret' = "killed"

-----------------------------------------------------------------------------
(* DataManager.get_item: the first record whose id equals the argument.    *)
(* item['id'] raises KeyError on a record without the key, and the scan    *)
(* stops at the first match, so what happens is decided by the first       *)
(* record that either lacks the key or matches.                            *)

Stops(d, id) ==
    {i \in 1..Len(d) : d[i]["id"] = Absent \/ d[i]["id"] = IntV(id)}

FirstStop(d, id) == CHOOSE i \in Stops(d, id) : \A j \in Stops(d, id) : i <= j

get_item(d, id) ==
    IF Stops(d, id) = {} THEN [r |-> "None", item |-> NoPatch]
    ELSE IF d[FirstStop(d, id)]["id"] = Absent
         THEN [r |-> "KeyError", item |-> NoPatch]
         ELSE [r |-> "found", item |-> d[FirstStop(d, id)]]

\* dict.update(updated_data): the keys of the patch overwrite.
DictUpdate(item, patch) ==
    [k \in Keys |-> IF patch[k] # Absent THEN patch[k] ELSE item[k]]

\* The patches a caller may pass to update_item.
Patches ==
    {[k \in Keys |-> CASE k = "id" -> i [] k = "title" -> t [] OTHER -> Absent] :
        i \in {Absent, IntV(2)}, t \in {Absent, StrV("b")}}

-----------------------------------------------------------------------------
(* The operations.  Each is enabled while a store exists (pc = "idle").    *)

\* PersonalAssistant._add_note and DataManager.add_item: the console layer
\* numbers the new note len(data) + 1, add_item appends its dict and saves.
add_item(title) ==
    /\ pc = "idle"
    /\ Len(data) < MaxLen
    /\ LET item == to_dict(Len(data) + 1, title)
       IN  /\ data' = Append(data, item)
           /\ op' = Op("add", Len(data) + 1, item, 0)
           /\ \/ save_data(data', "None")
              \/ save_data_killed(data')
    /\ UNCHANGED others

\* DataManager.update_item.
update_item(id, patch) ==
    /\ pc = "idle"
    /\ op' = Op("update", id, patch, 0)
    /\ IF get_item(data, id).r = "found"
       THEN /\ data' = [data EXCEPT ![FirstStop(data, id)] =
                                        DictUpdate(@, patch)]
            /\ \/ save_data(data', "True")
               \/ save_data_killed(data')
       ELSE /\ ret' = IF get_item(data, id).r = "KeyError"
                      THEN "KeyError" ELSE "False"
            /\ UNCHANGED <<data, file, pc>>
    /\ UNCHANGED others

\* DataManager.delete_item: the list comprehension reads item['id'] of
\* every record, then keeps the records whose id differs.
delete_item(id) ==
    /\ pc = "idle"
    /\ op' = Op("delete", id, NoPatch, 0)
    /\ IF \E i \in 1..Len(data) : data[i]["id"] = Absent
       THEN /\ ret' = "KeyError"
            /\ UNCHANGED <<data, file, pc>>
       ELSE LET kept == SelectSeq(data, LAMBDA item : item["id"] # IntV(id))
            IN  IF Len(kept) < Len(data)
                THEN /\ data' = kept
                     /\ \/ save_data(data', "True")
                        \/ save_data_killed(data')
                ELSE /\ ret' = "False"
                     /\ UNCHANGED <<data, file, pc>>
    /\ UNCHANGED others

\* import_from_csv with the rows assigned to the collection instead of
\* appended to it.
import_from_csv_assign(c) ==
    /\ pc = "idle"
    /\ op' = Op("import", 0, NoPatch, c)
    /\ IF CsvFiles[c].exists
       THEN /\ Len(data) + Len(DictReaderRows(CsvFiles[c].lines)) <= MaxLen
            /\ data' = DictReaderRows(CsvFiles[c].lines)
            /\ \/ save_data(data', "True")
               \/ save_data_killed(data')
       ELSE /\ ret' = "False"
            /\ UNCHANGED <<data, file, pc>>
    /\ UNCHANGED others

\* DataManager.import_from_csv of the c-th CSV file.
import_from_csv(c) ==
    /\ pc = "idle"
    /\ op' = Op("import", 0, NoPatch, c)
    /\ IF CsvFiles[c].exists
       THEN /\ Len(data) + Len(DictReaderRows(CsvFiles[c].lines)) <= MaxLen
            /\ data' = data \o DictReaderRows(CsvFiles[c].lines)
            /\ \/ save_data(data', "True")
               \/ save_data_killed(data')
       ELSE /\ ret' = "False"
            /\ UNCHANGED <<data, file, pc>>
    /\ UNCHANGED others

\* DataManager.__init__: a new process constructs the store over the file
\* the previous one left.  json.load raises on a text it cannot parse and
\* nothing catches it.
init_store ==
    /\ pc \in {"idle", "crashed"}
    /\ op' = Op("init", 0, NoPatch, 0)
    /\ IF Loadable(file)
       THEN /\ data' = load_data(file)
            /\ pc' = "idle"
            /\ ret' = "None"
       ELSE /\ data' = <<>>
            /\ pc' = "load_error"
            /\ ret' = "JSONDecodeError"
    /\ UNCHANGED file
    /\ UNCHANGED others

Next ==
    \/ \E title \in Titles : add_item(title)
    \/ \E id \in 1..MaxLen, patch \in Patches : update_item(id, patch)
    \/ \E id \in 1..MaxLen : delete_item(id)
    \/ \E c \in 1..Len(CsvFiles) : import_from_csv(c)
    \/ init_store

Spec == Init /\ [][Next]_vars

-----------------------------------------------------------------------------
(* Collections for the specifications of search, export and the round      *)
(* trip: every sequence of at most MaxSample records, each either a note   *)
(* the console layer adds or a row read from one of the CSV files.  The    *)
(* storage file holds what save_data last wrote for the collection.        *)

\* Longest collection of these specifications.
MaxSample == 2

SampleTitles == {"ab", "Ba"}

SampleRecords ==
    {to_dict(id, title) : id \in 1..2, title \in SampleTitles}
        \cup UNION {{DictReaderRows(CsvFiles[c].lines)[i] :
                        i \in 1..Len(DictReaderRows(CsvFiles[c].lines))} :
                    c \in 1..Len(CsvFiles)}

SampleCollections == UNION {[1..n -> SampleRecords] : n \in 0..MaxSample}

Stored(d) == IF d = <<>> THEN NoFile ELSE FileOf(JsonDump(d))

SampleInit ==
    /\ data \in SampleCollections
    /\ file = Stored(data)
    /\ pc = "idle"
    /\ op = Op("init", 0, NoPatch, 0)
    /\ ret = "None"
    /\ OthersInit

-----------------------------------------------------------------------------
(* DataManager.search_items.  Strings are sequences of characters.         *)

UpperCase == "ABCDEFGHIJKLMNOPQRSTUVWXYZ"
LowerCase == "abcdefghijklmnopqrstuvwxyz"

\* str.lower() of one character.
LowerChar(c) ==
    IF \E i \in 1..Len(UpperCase) : SubSeq(UpperCase, i, i) = c
    THEN LET i == CHOOSE j \in 1..Len(UpperCase) : SubSeq(UpperCase, j, j) = c
         IN  SubSeq(LowerCase, i, i)
    ELSE c

\* str.lower().
RECURSIVE Lower(_)
Lower(s) ==
    IF s = "" THEN ""
    ELSE LowerChar(SubSeq(s, 1, 1)) \o Lower(SubSeq(s, 2, Len(s)))

\* str() of a list of strings: the repr of each member in quotes, joined
\* by a comma and a space, in brackets.
RECURSIVE ReprItems(_)
ReprItems(l) ==
    IF l = <<>> THEN ""
    ELSE "'" \o Head(l) \o "'" \o
         (IF Len(l) = 1 THEN "" ELSE ", " \o ReprItems(Tail(l)))

\* str(value).
Str(v) ==
    CASE v.t = "int" -> ToString(v.n)
      [] v.t = "str" -> v.s
      [] v.t = "none" -> "None"
      [] v.t = "list" -> "[" \o ReprItems(v.l) \o "]"

\* str.find: the lowest index (from 0) at which sub occurs in s, or -1.
Find(s, sub) ==
    LET at == {i \in 0..(Len(s) - Len(sub)) : SubSeq(s, i + 1, i + Len(sub)) = sub}
    IN  IF at = {} THEN -1 ELSE CHOOSE i \in at : \A j \in at : i <= j

\* The test of search_items with the field value left as it is.
ValueMatches_cased(value, keyword) == Find(Str(value), Lower(keyword)) # -1

\* str(value).lower().find(keyword.lower()) != -1
ValueMatches(value, keyword) == Find(Lower(Str(value)), Lower(keyword)) # -1

\* any(... for value in item.values())
ItemMatches(item, keyword) ==
    \E k \in Keys : item[k] # Absent /\ ValueMatches(item[k], keyword)

\* Keywords the user may search for.
Keywords == {"", "a", "B", "none", "2", "x'", "z"}

\* DataManager.search_items.
search_items(keyword) ==
    /\ pc = "idle"
    /\ op' = Op("search", 0, NoPatch, 0)
    /\ search' = [keyword |-> keyword,
                  items |-> SelectSeq(data, LAMBDA item : ItemMatches(item, keyword))]
    /\ ret' = "list"
    /\ UNCHANGED <<data, file, pc, csvfile, exported, calc>>

SearchNext == \E keyword \in Keywords : search_items(keyword)

SearchSpec == SampleInit /\ [][SearchNext]_vars

-----------------------------------------------------------------------------
(* DataManager.export_to_csv.  csv.DictWriter takes the keys of the first  *)
(* record as field names, writes them as the header and then one line per  *)
(* record; it raises ValueError at the first record that has a key outside *)
(* the field names, after the lines before it have been written.  The      *)
(* console layer gives the file a name ending in .csv, so it is never the  *)
(* storage file.                                                           *)

\* The order in which every dict of the model has received its keys: a
\* note gets id then title, a CSV row the header's names then the key None.
KeyOrder == <<"id", "title", "null", "", NoneKey>>

\* self.data[0].keys()
FieldNames(item) == SelectSeq(KeyOrder, LAMBDA k : item[k] # Absent)

\* The text the csv writer puts in a cell: nothing for None and for a
\* missing key (restval ''), the string itself, str() of anything else.
CellOf(v) == IF v = Absent \/ v.t = "none" THEN "" ELSE Str(v)

\* The header cells: the field names, the key None written as nothing.
HeaderCells(fieldnames) ==
    [i \in 1..Len(fieldnames) |->
        IF fieldnames[i] = NoneKey THEN "" ELSE fieldnames[i]]

RowCells(fieldnames, item) ==
    [i \in 1..Len(fieldnames) |-> CellOf(item[fieldnames[i]])]

\* The record has a key that is not a field name.
HasExtras(fieldnames, item) ==
    \E k \in Keys :
        item[k] # Absent /\ \A i \in 1..Len(fieldnames) : fieldnames[i] # k

\* The records writerows rejects.
Rejected(d) == {i \in 1..Len(d) : HasExtras(FieldNames(d[1]), d[i])}

\* The lines of the exported file without the header line.
ExportLines_noheader(d) ==
    LET n == IF Rejected(d) = {} THEN Len(d)
             ELSE (CHOOSE i \in Rejected(d) : \A j \in Rejected(d) : i <= j) - 1
    IN  [i \in 1..n |-> RowCells(FieldNames(d[1]), d[i])]

\* The lines export_to_csv leaves in the file for a non-empty collection.
ExportLines(d) ==
    LET n == IF Rejected(d) = {} THEN Len(d)
             ELSE (CHOOSE i \in Rejected(d) : \A j \in Rejected(d) : i <= j) - 1
    IN  <<HeaderCells(FieldNames(d[1]))>> \o
            [i \in 1..n |-> RowCells(FieldNames(d[1]), d[i])]

\* export_to_csv without its test for an empty collection: the file is
\* opened for writing and self.data[0] raises.
export_to_csv_unguarded ==
    /\ pc = "idle"
    /\ op' = Op("export", 0, NoPatch, 0)
    /\ IF data = <<>>
       THEN /\ ret' = "IndexError"
            /\ csvfile' = CsvOf(<<>>)
            /\ exported' = data
       ELSE /\ csvfile' = CsvOf(ExportLines(data))
            /\ exported' = data
            /\ ret' = IF Rejected(data) = {} THEN "None" ELSE "ValueError"
    /\ UNCHANGED <<data, file, pc, search, calc>>

\* DataManager.export_to_csv.
export_to_csv ==
    /\ pc = "idle"
    /\ op' = Op("export", 0, NoPatch, 0)
    /\ IF data = <<>>
       THEN /\ ret' = "None"
            /\ UNCHANGED <<csvfile, exported>>
       ELSE /\ csvfile' = CsvOf(ExportLines(data))
            /\ exported' = data
            /\ ret' = IF Rejected(data) = {} THEN "None" ELSE "ValueError"
    /\ UNCHANGED <<data, file, pc, search, calc>>

\* DataManager.import_from_csv of the file export_to_csv wrote.
import_exported ==
    /\ pc = "idle"
    /\ op' = Op("import", 0, NoPatch, 0)
    /\ IF csvfile.exists
       THEN /\ Len(data) + Len(DictReaderRows(csvfile.lines)) <= MaxLen
            /\ data' = data \o DictReaderRows(csvfile.lines)
            /\ \/ save_data(data', "True")
               \/ save_data_killed(data')
       ELSE /\ ret' = "False"
            /\ UNCHANGED <<data, file, pc>>
    /\ UNCHANGED others

\* DataManager.__init__ over a storage file that does not exist: a store
\* with an empty collection.  data and file are from now on those of this
\* store.
init_empty_store ==
    /\ pc = "idle"
    /\ op' = Op("init", 0, NoPatch, 0)
    /\ data' = load_data(NoFile)
    /\ file' = NoFile
    /\ ret' = "None"
    /\ UNCHANGED <<pc, others>>

CsvNext ==
    \/ export_to_csv
    \/ import_exported
    \/ init_empty_store

CsvSpec == SampleInit /\ [][CsvNext]_vars

-----------------------------------------------------------------------------
(* Calculator.calculate: the test of the characters, then Python's eval.   *)
(* eval is modelled on expressions without '.': the tokens, the grammar    *)
(* and the evaluation order of Python for what the remaining characters    *)
(* can spell.  Numbers are exact rationals tagged int or float.            *)

\* Longest expression typed.
MaxChars == 4

\* The characters typed: two digits, the operators, the parentheses, the
\* space, and one character outside allowed_chars.
Typed == {"0", "2", "+", "-", "*", "/", "(", ")", " ", "&"}

RECURSIVE Strings(_)
Strings(n) ==
    IF n = 0 THEN {""}
    ELSE {""} \cup {c \o e : c \in Typed, e \in Strings(n - 1)}

Expressions == Strings(MaxChars)

\* allowed_chars = set('0123456789.+-*/() ')
AllowedChars == "0123456789.+-*/() "

Digits == "0123456789"

CharAt(e, i) == SubSeq(e, i, i)
From(e, i) == SubSeq(e, i, Len(e))
InString(c, chars) == \E j \in 1..Len(chars) : CharAt(chars, j) = c
IsDigit(c) == InString(c, Digits)

\* The length of the run of digits at the start of e.
DigitRun(e) ==
    CHOOSE n \in 0..Len(e) :
        /\ \A i \in 1..n : IsDigit(CharAt(e, i))
        /\ n = Len(e) \/ ~IsDigit(CharAt(e, n + 1))

\* The tokens of Python: spaces separate, digits run together, ** and //
\* are one token each.
RECURSIVE Tokenize(_)
Tokenize(e) ==
    IF e = "" THEN <<>>
    ELSE LET c == CharAt(e, 1)
         IN  IF c = " " THEN Tokenize(From(e, 2))
             ELSE IF IsDigit(c)
             THEN <<SubSeq(e, 1, DigitRun(e))>> \o
                      Tokenize(From(e, DigitRun(e) + 1))
             ELSE IF c \in {"*", "/"} /\ Len(e) >= 2 /\ CharAt(e, 2) = c
             THEN <<c \o c>> \o Tokenize(From(e, 3))
             ELSE <<c>> \o Tokenize(From(e, 2))

DigitValue(c) == (CHOOSE j \in 1..Len(Digits) : CharAt(Digits, j) = c) - 1

RECURSIVE NumberValue(_)
NumberValue(t) ==
    IF t = "" THEN 0
    ELSE 10 * NumberValue(SubSeq(t, 1, Len(t) - 1)) + DigitValue(CharAt(t, Len(t)))

\* A decimal integer may start with 0 only when all its digits are 0.
BadLeadingZero(t) ==
    Len(t) > 1 /\ CharAt(t, 1) = "0" /\ \E i \in 1..Len(t) : CharAt(t, i) # "0"

-----------------------------------------------------------------------------
(* Values of an evaluation: an int, a float or the empty tuple ().         *)

Abs(n) == IF n < 0 THEN -n ELSE n

RECURSIVE GCD(_, _)
GCD(a, b) == IF b = 0 THEN a ELSE GCD(b, a % b)

\* The number n/d (d # 0) in lowest terms with a positive denominator.
Number(t, n, d) ==
    LET g == GCD(Abs(n), Abs(d))
        sign == IF d < 0 THEN -1 ELSE 1
    IN  [t |-> t, num |-> sign * (n \div g), den |-> sign * (d \div g)]

EmptyTuple == [t |-> "tuple", num |-> 0, den |-> 1]

Value(v) == [kind |-> "value", val |-> v]
Raised(kind) == [kind |-> kind, val |-> NoValue]

RECURSIVE IntPow(_, _)
IntPow(b, e) == IF e = 0 THEN 1 ELSE b * IntPow(b, e - 1)

\* float if either operand is a float.
Wider(a, b) == IF a.t = "float" \/ b.t = "float" THEN "float" ELSE "int"

\* a ** b for numbers.  An exponent that is not a whole number gives a
\* result that is no rational; no expression of the model has one.
Power(a, b) ==
    IF b.den # 1 THEN Raised("unmodelled")
    ELSE IF b.num < 0
    THEN IF a.num = 0 THEN Raised("ZeroDivisionError")
         ELSE Value(Number("float", IntPow(a.den, -b.num), IntPow(a.num, -b.num)))
    ELSE Value(Number(Wider(a, b), IntPow(a.num, b.num), IntPow(a.den, b.num)))

\* The binary operators on two values.
Apply(o, a, b) ==
    IF a.t = "tuple" \/ b.t = "tuple"
    THEN IF \/ o = "+" /\ a.t = "tuple" /\ b.t = "tuple"
            \/ o = "*" /\ {a.t, b.t} = {"tuple", "int"}
         THEN Value(EmptyTuple)
         ELSE Raised("TypeError")
    ELSE CASE o = "+" ->
                Value(Number(Wider(a, b), a.num * b.den + b.num * a.den, a.den * b.den))
           [] o = "-" ->
                Value(Number(Wider(a, b), a.num * b.den - b.num * a.den, a.den * b.den))
           [] o = "*" ->
                Value(Number(Wider(a, b), a.num * b.num, a.den * b.den))
           [] o = "/" ->
                IF b.num = 0 THEN Raised("ZeroDivisionError")
                ELSE Value(Number("float", a.num * b.den, a.den * b.num))
           [] o = "//" ->
                IF b.num = 0 THEN Raised("ZeroDivisionError")
                ELSE LET q == Number("int", a.num * b.den, a.den * b.num)
                     IN  Value(Number(Wider(a, b), q.num \div q.den, 1))
           [] o = "**" -> Power(a, b)

\* Operands are evaluated left to right; the first exception wins.
BinOp(o, x, y) ==
    IF x.kind # "value" THEN x
    ELSE IF y.kind # "value" THEN y
    ELSE Apply(o, x.val, y.val)

UnaryOp(o, x) ==
    IF x.kind # "value" THEN x
    ELSE IF x.val.t = "tuple" THEN Raised("TypeError")
    ELSE Value(Number(x.val.t, IF o = "-" THEN -x.val.num ELSE x.val.num, x.val.den))

\* A call: the callee and its argument are evaluated, then the call fails
\* because no value of an expression is callable.
Call(f, arg) ==
    IF f.kind # "value" THEN f
    ELSE IF arg.kind # "value" THEN arg
    ELSE Raised("TypeError")

-----------------------------------------------------------------------------
(* The grammar of Python over these tokens.  A parse gives the outcome of  *)
(* evaluating what it has read and the tokens left, or a syntax error.     *)

Parsed(out, rest) == [syn |-> FALSE, out |-> out, rest |-> rest]
SyntaxErr == [syn |-> TRUE, out |-> Raised("SyntaxError"), rest |-> <<>>]

\* The next token is one of these.
Next1(p, tokens) == ~p.syn /\ p.rest # <<>> /\ Head(p.rest) \in tokens

RECURSIVE ParseSum(_), SumRest(_), ParseTerm(_), TermRest(_), ParseFactor(_),
          ParsePower(_), ParsePrimary(_), CallRest(_), ParseAtom(_)

\* sum: term (('+' | '-') term)*
ParseSum(ts) == SumRest(ParseTerm(ts))

SumRest(p) ==
    IF ~Next1(p, {"+", "-"}) THEN p
    ELSE LET q == ParseTerm(Tail(p.rest))
         IN  IF q.syn THEN SyntaxErr
             ELSE SumRest(Parsed(BinOp(Head(p.rest), p.out, q.out), q.rest))

\* term: factor (('*' | '/' | '//') factor)*
ParseTerm(ts) == TermRest(ParseFactor(ts))

TermRest(p) ==
    IF ~Next1(p, {"*", "/", "//"}) THEN p
    ELSE LET q == ParseFactor(Tail(p.rest))
         IN  IF q.syn THEN SyntaxErr
             ELSE TermRest(Parsed(BinOp(Head(p.rest), p.out, q.out), q.rest))

\* factor: ('+' | '-') factor | power
ParseFactor(ts) ==
    IF ts # <<>> /\ Head(ts) \in {"+", "-"}
    THEN LET q == ParseFactor(Tail(ts))
         IN  IF q.syn THEN SyntaxErr
             ELSE Parsed(UnaryOp(Head(ts), q.out), q.rest)
    ELSE ParsePower(ts)

\* power: primary ['**' factor]
ParsePower(ts) ==
    LET p == ParsePrimary(ts)
    IN  IF ~Next1(p, {"**"}) THEN p
        ELSE LET q == ParseFactor(Tail(p.rest))
             IN  IF q.syn THEN SyntaxErr
                 ELSE Parsed(BinOp("**", p.out, q.out), q.rest)

\* primary: atom ('(' [['*' | '**'] sum] ')')*
ParsePrimary(ts) == CallRest(ParseAtom(ts))

CallRest(p) ==
    IF ~Next1(p, {"("}) THEN p
    ELSE LET args == Tail(p.rest)
         IN  IF args # <<>> /\ Head(args) = ")"
             THEN CallRest(Parsed(Call(p.out, Value(EmptyTuple)), Tail(args)))
             ELSE LET q == IF args # <<>> /\ Head(args) \in {"*", "**"}
                           THEN ParseSum(Tail(args))
                           ELSE ParseSum(args)
                  IN  IF ~Next1(q, {")"}) THEN SyntaxErr
                      ELSE CallRest(Parsed(Call(p.out, q.out), Tail(q.rest)))

\* atom: NUMBER | '(' ')' | '(' sum ')'
ParseAtom(ts) ==
    IF ts = <<>> THEN SyntaxErr
    ELSE IF IsDigit(CharAt(Head(ts), 1))
    THEN IF BadLeadingZero(Head(ts)) THEN SyntaxErr
         ELSE Parsed(Value(Number("int", NumberValue(Head(ts)), 1)), Tail(ts))
    ELSE IF Head(ts) = "("
    THEN IF Len(ts) >= 2 /\ ts[2] = ")"
         THEN Parsed(Value(EmptyTuple), SubSeq(ts, 3, Len(ts)))
         ELSE LET q == ParseSum(Tail(ts))
              IN  IF ~Next1(q, {")"}) THEN SyntaxErr
                  ELSE Parsed(q.out, Tail(q.rest))
    ELSE SyntaxErr

\* eval(expression, {"__builtins__": {}}): compile, then evaluate.
PyEval(expression) ==
    LET p == ParseSum(Tokenize(expression))
    IN  IF p.syn \/ p.rest # <<>> THEN Raised("SyntaxError") ELSE p.out

Outcome(expression, kind, msg, val) ==
    [expression |-> expression, kind |-> kind, msg |-> msg, val |-> val]

\* Calculator.calculate.
Calculate(expression) ==
    IF \E i \in 1..Len(expression) : ~InString(CharAt(expression, i), AllowedChars)
    THEN Outcome(expression, "ValueError", "Invalid characters in expression", NoValue)
    ELSE LET r == PyEval(expression)
         IN  IF r.kind \in {"SyntaxError", "NameError", "ZeroDivisionError"}
             THEN Outcome(expression, "ValueError", "Invalid expression", NoValue)
             ELSE Outcome(expression, r.kind, "", r.val)

\* The user has typed an expression.
CalcInit ==
    /\ data = <<>>
    /\ file = NoFile
    /\ pc = "idle"
    /\ op = Op("init", 0, NoPatch, 0)
    /\ ret = "None"
    /\ csvfile = NoCsv
    /\ exported = <<>>
    /\ search = NoSearch
    /\ calc \in {Outcome(e, "none", "", NoValue) : e \in Expressions}

\* PersonalAssistant.use_calculator: one turn of the loop.
calculate ==
    /\ calc.kind = "none"
    /\ calc' = Calculate(calc.expression)
    /\ UNCHANGED <<data, file, pc, op, ret, csvfile, exported, search>>

CalcNext == calculate

CalcSpec == CalcInit /\ [][CalcNext]_vars

-----------------------------------------------------------------------------
(* Properties.                                                             *)

\* C1: in every reachable state of a store, no two records of the
\* collection have the same id.
UniqueIds ==
    pc = "idle" =>
        \A i, j \in 1..Len(data) :
            (i # j /\ data[i]["id"] # Absent) => data[i]["id"] # data[j]["id"]

\* C2: right after add(R), get(R.id) returns a record equal to R, and so
\* does get(R.id) on a new store constructed from the storage file.
AddThenGet ==
    (pc = "idle" /\ op.name = "add") =>
        /\ get_item(data, op.id) = [r |-> "found", item |-> op.patch]
        /\ Loadable(file)
        /\ get_item(load_data(file), op.id) = [r |-> "found", item |-> op.patch]

\* C3: between completed operations the storage file holds the in-memory
\* collection: a reload of the store yields exactly that collection.
StorageEqualsMemory ==
    pc = "idle" => (Loadable(file) /\ load_data(file) = data)

\* C4: a process stopped inside save leaves the storage file holding
\* either the complete previous text or the complete new one.
SaveIsAtomic ==
    [][pc' = "crashed" => file' \in {file, FileOf(JsonDump(data'))}]_vars

\* C5: update(id, patch) changes the id of no record, and changes nothing
\* but fields of the matched record that are keys of the patch.
UpdateFrame ==
    [][(op'.name = "update" /\ pc' = "idle") =>
          /\ Len(data') = Len(data)
          /\ \A i \in 1..Len(data) :
                /\ data'[i]["id"] = data[i]["id"]
                /\ \A k \in Keys :
                      data'[i][k] # data[i][k] =>
                          /\ get_item(data, op'.id).r = "found"
                          /\ i = FirstStop(data, op'.id)
                          /\ op'.patch[k] # Absent]_vars

\* C6: right after delete(id), get(id) returns absent.
DeleteThenGet ==
    (pc = "idle" /\ op.name = "delete") => get_item(data, op.id).r = "None"

\* C7: for an id no record carries, update and delete return false, get
\* returns absent, none of them raises, and memory and storage stay as
\* they are.
Carried(d, id) == \E i \in 1..Len(d) : d[i]["id"] = IntV(id)

UnknownIdIsNoOp ==
    [][/\ \A id \in 1..MaxLen :
              (pc = "idle" /\ ~Carried(data, id)) =>
                  get_item(data, id).r = "None"
       /\ (op'.name \in {"update", "delete"} /\ ~Carried(data, op'.id)) =>
              (ret' = "False" /\ UNCHANGED <<data, file>>)]_vars

\* C8: a delete that returns true removes exactly one record, the first
\* one whose id matches, and keeps every other record in order.
DeleteRemovesFirstOnly ==
    [][(op'.name = "delete" /\ ret' = "True") =>
          \E i \in 1..Len(data) :
              /\ data[i]["id"] = IntV(op'.id)
              /\ \A j \in 1..(i - 1) : data[j]["id"] # IntV(op'.id)
              /\ data' = SubSeq(data, 1, i - 1) \o
                             SubSeq(data, i + 1, Len(data))]_vars

\* C9: every record of the collection has an id field holding a positive
\* integer.
IdsArePositiveIntegers ==
    pc = "idle" =>
        \A i \in 1..Len(data) :
            data[i]["id"].t = "int" /\ data[i]["id"].n >= 1

\* C10: importCsv of a missing file returns false and changes neither the
\* collection nor the storage file; importCsv of an existing file returns
\* true, appends one record per CSV row (a line after the header that
\* holds at least one cell) after the existing records, which stay as they
\* are, and writes the resulting collection to the storage file.
ImportContract ==
    [][(op'.name = "import" /\ ret' # "killed") =>
          LET lines == CsvFiles[op'.csv].lines
              nrows == Cardinality({i \in 2..Len(lines) : lines[i] # <<>>})
          IN  IF CsvFiles[op'.csv].exists
              THEN /\ ret' = "True"
                   /\ Len(data') = Len(data) + nrows
                   /\ SubSeq(data', 1, Len(data)) = data
                   /\ file' = FileOf(JsonDump(data'))
              ELSE /\ ret' = "False"
                   /\ UNCHANGED <<data, file>>]_vars

\* Witness of C10: an import of a CSV file with rows has returned true on
\* a collection that already held an added note.
ImportAppended ==
    /\ pc = "idle" /\ op.name = "import" /\ ret = "True"
    /\ Len(data) >= 2
    /\ data[1]["id"].t = "int"
    /\ data[Len(data)]["id"].t # "int"

\* C11: search(keyword) returns exactly the records of which some field
\* value, as a lower-cased string, contains the lower-cased keyword, in
\* collection order (none when no record has such a field), and changes
\* neither the collection nor the storage file.
Contains(s, sub) ==
    \E a \in 1..(Len(s) + 1) : \E b \in (a - 1)..Len(s) : SubSeq(s, a, b) = sub

Hits(d, keyword) ==
    {i \in 1..Len(d) :
        \E k \in Keys : /\ d[i][k] # Absent
                        /\ Contains(Lower(Str(d[i][k])), Lower(keyword))}

SearchContract ==
    [][op'.name = "search" =>
          LET hits == Hits(data, search'.keyword)
              items == search'.items
          IN  /\ Len(items) = Cardinality(hits)
              /\ \A j \in 1..Len(items) :
                     \E i \in hits : /\ Cardinality({h \in hits : h < i}) = j - 1
                                     /\ items[j] = data[i]
              /\ UNCHANGED <<data, file>>]_vars

\* Witness of C11: the keyword "B" has selected, of two records, the one
\* whose title holds a lower-case b.
SearchFound ==
    /\ op.name = "search" /\ search.keyword = "B"
    /\ Len(data) = 2
    /\ search.items = <<data[2]>>
    /\ data[2]["title"] = StrV("ab")

\* C12: exportCsv on an empty collection writes no file and raises
\* nothing; on any collection it leaves the in-memory collection and the
\* JSON storage file as they are.
ExportFrame ==
    [][op'.name = "export" =>
          /\ UNCHANGED <<data, file>>
          /\ data = <<>> => (csvfile' = csvfile /\ ret' = "None")]_vars

\* Witness of C12: an export has run on an empty collection and the CSV
\* file of an earlier export is still there.
ExportedEmpty ==
    /\ op.name = "export" /\ data = <<>> /\ ret = "None"
    /\ csvfile.exists /\ exported # <<>>

\* C13: for a non-empty collection whose records share one field set,
\* export followed by import of the file into an empty store yields the
\* same records in the same order when all values are strings, and yields
\* the string form of every value that was a number.
SameFields(d) ==
    \A i \in 1..Len(d) : \A k \in Keys : (d[i][k] = Absent) <=> (d[1][k] = Absent)

ValuesOf(d, types) ==
    \A i \in 1..Len(d) : \A k \in Keys : d[i][k] # Absent => d[i][k].t \in types

RECURSIVE Lexemes(_)
Lexemes(e) ==
    IF e = "" THEN <<>>
    ELSE IF CharAt(e, 1) = " " THEN Lexemes(From(e, 2))
    ELSE IF IsDigit(CharAt(e, 1))
    THEN <<SubSeq(e, 1, DigitRun(e))>> \o Lexemes(From(e, DigitRun(e) + 1))
    ELSE <<CharAt(e, 1)>> \o Lexemes(From(e, 2))

Read(rest) == [ok |-> TRUE, rest |-> rest]
NotRead == [ok |-> FALSE, rest |-> <<>>]
Sees(r, lexemes) == r.ok /\ r.rest # <<>> /\ Head(r.rest) \in lexemes

RECURSIVE ReadExpr(_), ExprRest(_), ReadTerm(_), TermTail(_), ReadUnary(_),
          ReadPrimary(_)

\* expr: term (('+' | '-') term)*
ReadExpr(ls) == ExprRest(ReadTerm(ls))
ExprRest(r) == IF Sees(r, {"+", "-"}) THEN ExprRest(ReadTerm(Tail(r.rest))) ELSE r

\* term: unary (('*' | '/') unary)*
ReadTerm(ls) == TermTail(ReadUnary(ls))
TermTail(r) == IF Sees(r, {"*", "/"}) THEN TermTail(ReadUnary(Tail(r.rest))) ELSE r

\* unary: '-' unary | primary
ReadUnary(ls) ==
    IF ls # <<>> /\ Head(ls) = "-" THEN ReadUnary(Tail(ls)) ELSE ReadPrimary(ls)

\* primary: NUMBER | '(' expr ')'
ReadPrimary(ls) ==
    IF ls = <<>> THEN NotRead
    ELSE IF IsDigit(CharAt(Head(ls), 1)) THEN Read(Tail(ls))
    ELSE IF Head(ls) = "("
    THEN LET r == ReadExpr(Tail(ls))
         IN  IF Sees(r, {")"}) THEN Read(Tail(r.rest)) ELSE NotRead
    ELSE NotRead

WellFormed(e) ==
    /\ \A i \in 1..Len(e) : InString(CharAt(e, i), AllowedChars)
    /\ ReadExpr(Lexemes(e)) = Read(<<>>)

\* C14: evaluate fails with InvalidExpressionError (ValueError in the
\* code) for every input that is not a well-formed expression of the
\* grammar; no such input yields a value or another kind of error.
MalformedIsRejected ==
    (calc.kind # "none" /\ ~WellFormed(calc.expression)) =>
        calc.kind = "ValueError"

\* C15: a well-formed expression whose evaluation divides by zero fails
\* with an outcome the caller can tell from the one of a malformed input
\* (here the trailing operator of "2+").
DivisionByZeroIsDistinct ==
    (/\ calc.kind # "none"
     /\ WellFormed(calc.expression)
     /\ PyEval(calc.expression).kind = "ZeroDivisionError") =>
        /\ calc.kind \notin {"none", "value"}
        /\ <<calc.kind, calc.msg>> #
               <<Calculate("2+").kind, Calculate("2+").msg>>

====
